---- MODULE Spec2Model ----
(***************************************************************************)
(* A model of the idiom-chain game plugin (src/main.py,                    *)
(* ChengyuJielongPlugin).  Handlers are asyncio coroutines: a handler runs *)
(* atomically up to its next suspension (an awaited provider.text_chat, the*)
(* asyncio.sleep, or a yield that is followed by more code) and other      *)
(* handlers may run while it is suspended.  The code takes no lock.        *)
(*                                                                         *)
(* Texts are sequences of characters.  A character is a short token:       *)
(* "h1","h2" stand for ordinary Han characters, "wo" and "shuo" for two of *)
(* the Han characters the pre-filter bans, "shen","zen","me" for the Han   *)
(* characters of the two banned bigrams, "!" for punctuation, "x" for an   *)
(* ASCII letter or digit, "/" for the slash, "sp" for white space.         *)
(* Display names and wall-clock timestamps are not part of the model; a    *)
(* session's start_time is the serial number of the session object.        *)
(***************************************************************************)
EXTENDS Integers, Sequences, FiniteSets, TLC

\* ------------------------------------------------------------------ bounds

\* Session objects ever created in one run.
MaxGames == 2
\* Handlers that may be suspended at the same time, in Spec and in SpecRace.
MaxTasks == 1
RaceTasks == 2
\* Idioms played in one run, over all session objects (seeds included).
MaxEntries == 4

\* ------------------------------------------------------- program constants

\* An idiom has exactly 4 Han characters (len(cleaned_text) != 4).
IdiomLen == 4
\* recent_games[-3:]
RecentKeep == 3
\* game_history[session_id][-10:]
HistoryKeep == 10

\* ------------------------------------------------------------- characters

HanPlain == {"h1", "h2"}
\* Han characters the pre-filter bans one by one (two of the seven).
HanBannedSingle == {"wo", "shuo"}
\* Han characters of the banned bigrams "shen me" and "zen me".
HanBigram == {"shen", "zen", "me"}
\* the Han range U+4E00..U+9FFF
HanChars == HanPlain \cup HanBannedSingle \cup HanBigram
\* [0-9a-zA-Z]
AlnumChars == {"x"}
WhiteSpace == {"sp"}

Keys == {"k1"}
Users == {"u1", "u2"}

\* The fixed default start idiom.
DefaultChengyu == <<"h1", "h1", "h2", "h2">>

\* ------------------------------------------------------------ text helpers

IsHan(c) == c \in HanChars

\* re.sub deleting every character outside the Han range
Clean(text) == SelectSeq(text, IsHan)

RECURSIVE LStrip(_)
LStrip(text) ==
    IF text # <<>> /\ Head(text) \in WhiteSpace THEN LStrip(Tail(text)) ELSE text

RECURSIVE RStrip(_)
RStrip(text) ==
    IF text # <<>> /\ text[Len(text)] \in WhiteSpace
    THEN RStrip(SubSeq(text, 1, Len(text) - 1))
    ELSE text

\* str.strip()
Strip(text) == RStrip(LStrip(text))

\* A membership test that never finds the element.
InList_Never(x, list) == FALSE

\* x in list
InList(x, list) == \E i \in 1..Len(list) : list[i] = x

\* "ab" in text, for the two-character needle <<a, b>>
HasBigram(text, a, b) == \E i \in 1..(Len(text) - 1) : text[i] = a /\ text[i + 1] = b

\* list[-n:]
LastN(list, n) ==
    IF Len(list) <= n THEN list ELSE SubSeq(list, Len(list) - n + 1, Len(list))

\* is_potential_chengyu: the fast pre-filter of handle_chengyu_input.
is_potential_chengyu(text) ==
    /\ text # <<>>
    /\ Len(Clean(text)) = IdiomLen
    /\ text[1] # "/"
    /\ ~ \E i \in 1..Len(text) : text[i] \in AlnumChars
    /\ ~ \E i \in 1..Len(Clean(text)) : Clean(text)[i] \in HanBannedSingle
    /\ ~ HasBigram(Clean(text), "shen", "me")
    /\ ~ HasBigram(Clean(text), "zen", "me")

\* can_jielong that also accepts a link in the opposite direction.
can_jielong_EitherWay(last_chengyu, new_chengyu) ==
    IF last_chengyu = <<>> \/ new_chengyu = <<>>
    THEN [ok |-> FALSE, reason |-> "empty", last_char |-> "", first_char |-> ""]
    ELSE LET last_char == last_chengyu[Len(last_chengyu)]
             first_char == new_chengyu[1]
             linked == \/ last_char = first_char
                       \/ new_chengyu[Len(new_chengyu)] = last_chengyu[1]
         IN  [ok |-> linked, reason |-> IF linked THEN "ok" ELSE "mismatch",
              last_char |-> last_char, first_char |-> first_char]

\* can_jielong comparing the first characters of both strings.
can_jielong_FirstChars(last_chengyu, new_chengyu) ==
    IF last_chengyu = <<>> \/ new_chengyu = <<>>
    THEN [ok |-> FALSE, reason |-> "empty", last_char |-> "", first_char |-> ""]
    ELSE [ok |-> last_chengyu[1] = new_chengyu[1],
          reason |-> IF last_chengyu[1] = new_chengyu[1] THEN "ok" ELSE "mismatch",
          last_char |-> last_chengyu[1], first_char |-> new_chengyu[1]]

\* can_jielong: (ok, reason); the keys compared are the raw first and last
\* characters of the two strings.
can_jielong(last_chengyu, new_chengyu) ==
    IF last_chengyu = <<>> \/ new_chengyu = <<>>
    THEN [ok |-> FALSE, reason |-> "empty", last_char |-> "", first_char |-> ""]
    ELSE LET last_char == last_chengyu[Len(last_chengyu)]
             first_char == new_chengyu[1]
         IN  IF last_char = first_char
             THEN [ok |-> TRUE, reason |-> "ok",
                   last_char |-> last_char, first_char |-> first_char]
             ELSE [ok |-> FALSE, reason |-> "mismatch",
                   last_char |-> last_char, first_char |-> first_char]

\* ------------------------------------------------------- external replies

\* What provider.text_chat gives back: an exception ("raise"), no response
\* object or an empty completion_text ("none"), or a completion text.
NoText == [kind |-> "none", text |-> <<>>]
Raised == [kind |-> "raise", text |-> <<>>]
TextReply(t) == [kind |-> "text", text |-> t]

\* The provider the handler ends up with: get_using_provider(), else the
\* first of get_all_providers() (an exception there is caught and leaves none).
GetProvider(using, all) == using \/ all = "some"

\* <<get_using_provider() gave one, what get_all_providers() did>>
ProviderCases == { <<TRUE, "empty">>, <<FALSE, "some">>, <<FALSE, "raise">> }

\* Judge answers, as sequences of words: yes (shi), no (fou), "is not" (bu shi),
\* YES, True, "idiom" (cheng yu), "perhaps" (huo xu), and a blank answer.
JudgeTexts ==
    { <<"shi">>, <<"fou">>, <<"bu", "shi">>, <<"YES">>, <<"True">>,
      <<"cheng", "yu">>, <<"huo", "xu">>, <<"sp">> }

JudgeReplies == {NoText, Raised} \cup {TextReply(t) : t \in JudgeTexts}

\* str.lower() on one word
LowerWord(w) == CASE w = "YES" -> "yes" [] w = "True" -> "true" [] OTHER -> w

\* The affirmative scan of is_valid_chengyu over the stripped answer.
IsAffirmative(result) ==
    \/ InList("shi", result)
    \/ \E i \in 1..Len(result) : LowerWord(result[i]) = "yes"
    \/ \E i \in 1..Len(result) : LowerWord(result[i]) = "true"
    \/ HasBigram(result, "cheng", "yu")

\* is_valid_chengyu up to the provider lookup: the format checks.
\* "pass" means the checks passed and the judge is consulted next.
FormatCheck(text) ==
    IF text = <<>> THEN "empty"
    ELSE IF Len(Clean(text)) # IdiomLen THEN "length"
    ELSE IF \E i \in 1..Len(Clean(text)) : ~ IsHan(Clean(text)[i]) THEN "nothan"
    ELSE "pass"

\* is_valid_chengyu after the judge answered: (is_valid, reason).
JudgeVerdict(reply) ==
    IF reply.kind = "raise" THEN [ok |-> TRUE, reason |-> "basic"]
    ELSE IF reply.kind = "none" THEN [ok |-> TRUE, reason |-> "basic"]
    ELSE IF IsAffirmative(Strip(reply.text)) THEN [ok |-> TRUE, reason |-> "llm"]
    ELSE [ok |-> FALSE, reason |-> "notidiom"]

\* ------------------------------------------------------------------ inputs

\* event.message_str of an inbound chat message.
MessageTexts ==
    { <<"h1", "h1", "h2", "h2">>,
      <<"h2", "h2", "h1", "h1">>,
      <<"h2", "h2", "h1", "h1", "!">>,      \* an idiom followed by punctuation
      <<"sp", "h1", "h1", "h1", "h1">>,     \* an idiom after white space
      <<"h1", "h2">>,                       \* too short
      <<"h1", "wo", "h2", "h2">>,           \* holds a banned character
      <<"/", "h1", "h1", "h2", "h2">> }     \* a command

\* "".join(args) of /c start; <<>> stands for "no arguments".
SeedTexts == { <<"h1", "h1", "h1", "h1">>, <<"h1", "h2">>, <<>> }

\* completion_text of the opponent and of the seed generator.
OracleTexts ==
    { <<"h2", "h2", "h2", "h2">>, <<"h1", "h1", "h2", "h2", "!">>, <<"h1", "h2">> }

OracleReplies == {NoText, Raised} \cup {TextReply(t) : t \in OracleTexts}

\* ------------------------------------------------------------------- state

VARIABLES
    active_sessions,  \* self.active_sessions: session_id -> session object (its id)
    games,            \* the session objects ever created, by id
    user_scores,      \* self.user_scores: session_id -> user_id -> recent scores
    game_history,     \* self.game_history: session_id -> records
    tasks,            \* the suspended handlers
    ev                \* what the last step did and reported to its caller

vars == <<active_sessions, games, user_scores, game_history, tasks, ev>>

EmptyMap == [x \in {} |-> 0]

\* dict[key] = value
Put(map, key, value) == [x \in DOMAIN map \cup {key} |-> IF x = key THEN value ELSE map[x]]

\* A deletion that empties the dict.
Del_All(map, key) == EmptyMap

\* del dict[key]
Del(map, key) == [x \in DOMAIN map \ {key} |-> map[x]]

IdleTask == [pc |-> "idle", op |-> "none", key |-> "none", user |-> "none",
             text |-> <<>>, game |-> 0]

Event(op, key, user, text, ai, out, reason, game) ==
    [op |-> op, key |-> key, user |-> user, text |-> text, ai |-> ai,
     out |-> out, reason |-> reason, game |-> game]

\* The slots of suspended handlers the model keeps.
Slots == 1..(IF MaxTasks > RaceTasks THEN MaxTasks ELSE RaceTasks)

\* The free slots when at most n handlers may be suspended at a time.
FreeSlots(n) == { i \in 1..n : tasks[i].pc = "idle" }

\* Suspended start handlers: each may still create a session object.
StartsPending == Cardinality({ i \in Slots : tasks[i].op = "start" })

\* sum of len(game["history"]) over the session objects
RECURSIVE Entries(_)
Entries(objects) ==
    IF objects = <<>> THEN 0
    ELSE Len(objects[Len(objects)].history) + Entries(SubSeq(objects, 1, Len(objects) - 1))

\* The run may still play one more idiom.
CanAppend == Entries(games) < MaxEntries

CanAllocate == Len(games) + StartsPending < MaxGames /\ CanAppend

\* A registry lookup that never finds the session.
HasSession_Never(k) == FALSE

\* session_id in self.active_sessions
HasSession(k) == k \in DOMAIN active_sessions

\* __init__ with no data files: load_data leaves both stores empty.
Init ==
    /\ active_sessions = EmptyMap
    /\ games = <<>>
    /\ user_scores = EmptyMap
    /\ game_history = EmptyMap
    /\ tasks = [i \in Slots |-> IdleTask]
    /\ ev = Event("init", "none", "none", <<>>, <<>>, "none", "none", 0)

\* ------------------------------------------------------------------- start

\* The session object start_game stores.
NewGame(start_chengyu) ==
    [current_chengyu |-> start_chengyu,
     history |-> <<start_chengyu>>,
     user_scores |-> EmptyMap,
     start_time |-> Len(games) + 1,
     last_player |-> "AI"]

\* self.active_sessions[session_id] = {...}
CreateSession(k, start_chengyu) ==
    /\ games' = Append(games, NewGame(start_chengyu))
    /\ active_sessions' = Put(active_sessions, k, Len(games) + 1)

\* start_game up to its first suspension.
StartGame(k, seed, using, all, n) ==
    IF HasSession(k)
    THEN /\ ev' = Event("start", k, "none", <<>>, <<>>, "AlreadyActive", "none",
                        active_sessions[k])
         /\ UNCHANGED <<active_sessions, games, user_scores, game_history, tasks>>
    ELSE IF seed # <<>>
    THEN IF FormatCheck(seed) # "pass"
         THEN /\ ev' = Event("start", k, "none", seed, <<>>, "SeedRejected",
                             FormatCheck(seed), 0)
              /\ UNCHANGED <<active_sessions, games, user_scores, game_history, tasks>>
         ELSE IF ~ GetProvider(using, all)
         THEN /\ CanAllocate
              /\ CreateSession(k, seed)
              /\ ev' = Event("start", k, "none", seed, <<>>, "Created", "none",
                             Len(games) + 1)
              /\ UNCHANGED <<user_scores, game_history, tasks>>
         ELSE /\ CanAllocate
              /\ \E i \in FreeSlots(n) :
                    /\ \A j \in FreeSlots(n) : i <= j
                    /\ tasks' = [tasks EXCEPT ![i] =
                          [pc |-> "start_validate", op |-> "start", key |-> k,
                           user |-> "none", text |-> seed, game |-> 0]]
              /\ ev' = Event("start", k, "none", seed, <<>>, "Suspended", "judge", 0)
              /\ UNCHANGED <<active_sessions, games, user_scores, game_history>>
    ELSE /\ CanAllocate
         /\ \E i \in FreeSlots(n) :
               /\ \A j \in FreeSlots(n) : i <= j
               /\ tasks' = [tasks EXCEPT ![i] =
                     [pc |-> "start_yield", op |-> "start", key |-> k,
                      user |-> "none", text |-> <<>>, game |-> 0]]
         /\ ev' = Event("start", k, "none", seed, <<>>, "Suspended", "yield", 0)
         /\ UNCHANGED <<active_sessions, games, user_scores, game_history>>

\* start_game resumed with the judge's answer on the seed.
StartValidated(i, reply) ==
    /\ tasks[i].pc = "start_validate"
    /\ tasks' = [tasks EXCEPT ![i] = IdleTask]
    /\ IF JudgeVerdict(reply).ok
       THEN /\ CreateSession(tasks[i].key, tasks[i].text)
            /\ ev' = Event("start_resumed", tasks[i].key, "none", tasks[i].text, <<>>,
                           "Created", "none", Len(games) + 1)
       ELSE /\ ev' = Event("start_resumed", tasks[i].key, "none", tasks[i].text, <<>>,
                           "SeedRejected", JudgeVerdict(reply).reason, 0)
            /\ UNCHANGED <<active_sessions, games>>
    /\ UNCHANGED <<user_scores, game_history>>

\* generate_random_chengyu that takes whatever Han characters were answered.
Generated_Unchecked(reply) ==
    IF reply.kind # "text" THEN DefaultChengyu ELSE Clean(Strip(reply.text))

\* generate_random_chengyu after the oracle answered.
Generated(reply) ==
    IF reply.kind # "text" THEN DefaultChengyu
    ELSE IF Len(Clean(Strip(reply.text))) = IdiomLen THEN Clean(Strip(reply.text))
    ELSE DefaultChengyu

\* start_game without a seed, resumed after its "generating" notice:
\* generate_random_chengyu up to the oracle call.
StartGenerate(i, using, all) ==
    /\ tasks[i].pc = "start_yield"
    /\ IF ~ GetProvider(using, all)
       THEN /\ tasks' = [tasks EXCEPT ![i] = IdleTask]
            /\ CreateSession(tasks[i].key, DefaultChengyu)
            /\ ev' = Event("start_resumed", tasks[i].key, "none", DefaultChengyu, <<>>,
                           "Created", "noprovider", Len(games) + 1)
       ELSE /\ tasks' = [tasks EXCEPT ![i].pc = "start_generate"]
            /\ ev' = Event("start_resumed", tasks[i].key, "none", <<>>, <<>>, "Suspended",
                           "oracle", 0)
            /\ UNCHANGED <<active_sessions, games>>
    /\ UNCHANGED <<user_scores, game_history>>

\* start_game resumed with the generator's answer.
StartGenerated(i, reply) ==
    /\ tasks[i].pc = "start_generate"
    /\ tasks' = [tasks EXCEPT ![i] = IdleTask]
    /\ CreateSession(tasks[i].key, Generated(reply))
    /\ ev' = Event("start_resumed", tasks[i].key, "none", Generated(reply), reply.text,
                   "Created", reply.kind, Len(games) + 1)
    /\ UNCHANGED <<user_scores, game_history>>

\* -------------------------------------------------------------------- stop

\* add_user_score that keeps the three oldest scores.
add_user_score_KeepsOldest(scores, session_id, user_id, score) ==
    LET of_session == IF session_id \in DOMAIN scores THEN scores[session_id] ELSE EmptyMap
        recent == IF user_id \in DOMAIN of_session THEN of_session[user_id] ELSE <<>>
        all == Append(recent, score)
    IN  Put(scores, session_id,
            Put(of_session, user_id,
                IF Len(all) <= RecentKeep THEN all ELSE SubSeq(all, 1, RecentKeep)))

\* add_user_score on the ledger `scores`: append the score, keep the last three.
add_user_score(scores, session_id, user_id, score) ==
    LET of_session == IF session_id \in DOMAIN scores THEN scores[session_id] ELSE EmptyMap
        recent == IF user_id \in DOMAIN of_session THEN of_session[user_id] ELSE <<>>
    IN  Put(scores, session_id,
            Put(of_session, user_id, LastN(Append(recent, score), RecentKeep)))

\* for user_id, score in game["user_scores"].items(): add_user_score(...)
RECURSIVE FlushScores(_, _, _)
FlushScores(scores, session_id, pending) ==
    IF DOMAIN pending = {} THEN scores
    ELSE LET u == CHOOSE x \in DOMAIN pending : TRUE
         IN  FlushScores(add_user_score(scores, session_id, u, pending[u]),
                         session_id, Del(pending, u))

\* A record that counts the start idiom as a round.
HistoryRecord_CountsSeed(g) ==
    [history |-> g,
     start_time |-> games[g].start_time,
     total_rounds |-> Len(games[g].history),
     participants |-> Cardinality(DOMAIN games[g].user_scores)]

\* The record stop_game appends.  Its "history" is the session's own list
\* object (game["history"]), so it is held as the session object's id.
HistoryRecord(g) ==
    [history |-> g,
     start_time |-> games[g].start_time,
     total_rounds |-> Len(games[g].history) - 1,
     participants |-> Cardinality(DOMAIN games[g].user_scores)]

\* The append without the truncation.
AppendRecord_NoTrim(history, session_id, record) ==
    LET old == IF session_id \in DOMAIN history THEN history[session_id] ELSE <<>>
    IN  Put(history, session_id, Append(old, record))

\* self.game_history after stop_game's append and truncation.
AppendRecord(history, session_id, record) ==
    LET old == IF session_id \in DOMAIN history THEN history[session_id] ELSE <<>>
    IN  Put(history, session_id, LastN(Append(old, record), HistoryKeep))

\* How a save_data call ends: both files written ("saved"), or an exception,
\* which save_data catches and logs ("save_failed").  The files are never read
\* again after construction, so their content is not part of the state.
SaveOutcomes == {"saved", "save_failed"}

\* save_data that lets the exception of a failed write through.
save_data_Raises(io) == IF io = "save_failed" THEN "raised" ELSE "returned"

\* save_data: what the caller sees of the outcome (nothing: it returns None).
save_data(io) == "returned"

\* stop_game: it never suspends before its reply.  An exception that reached
\* it would be answered with the failure message of its except clause.
StopGame(k, io) ==
    IF ~ HasSession(k)
    THEN /\ ev' = Event("stop", k, "none", <<>>, <<>>, "NoActiveGame", "none", 0)
         /\ UNCHANGED <<active_sessions, games, user_scores, game_history, tasks>>
    ELSE LET g == active_sessions[k] IN
         /\ user_scores' = FlushScores(user_scores, k, games[g].user_scores)
         /\ game_history' = AppendRecord(game_history, k, HistoryRecord(g))
         /\ active_sessions' = Del(active_sessions, k)
         /\ ev' = IF save_data(io) = "returned"
                  THEN Event("stop", k, "none", <<>>, <<>>, "Stopped", io, g)
                  ELSE Event("stop", k, "none", <<>>, <<>>, "StopFailed", io, g)
         /\ UNCHANGED <<games, tasks>>

\* ------------------------------------------------------------------- moves

\* A user's move that gives one point to every scorer of the game.
UserAppend_ScoresAll(g, u, text) ==
    games' = [games EXCEPT
        ![g].current_chengyu = text,
        ![g].history = Append(@, text),
        ![g].last_player = "USER",
        ![g].user_scores = [x \in DOMAIN @ \cup {u} |->
                               (IF x \in DOMAIN @ THEN @[x] ELSE 0) + 1]]

\* A user's move that is appended without a point.
UserAppend_NoScore(g, u, text) ==
    games' = [games EXCEPT
        ![g].current_chengyu = text,
        ![g].history = Append(@, text),
        ![g].last_player = "USER"]

\* The user's accepted move written into session object g: the idiom and
\* one more point in the pending score of user u.
UserAppend(g, u, text) ==
    games' = [games EXCEPT
        ![g].current_chengyu = text,
        ![g].history = Append(@, text),
        ![g].last_player = "USER",
        ![g].user_scores =
            Put(@, u, (IF u \in DOMAIN @ THEN @[u] ELSE 0) + 1)]

\* handle_chengyu_input from the chain check on, for session object g, after
\* is_valid_chengyu passed with reason `why`: chain check, duplicate check,
\* then the user's move is applied and the handler suspends (the reply it
\* yields, then asyncio.sleep) in slot i.
ApplyMove(i, op, k, u, text, g, why) ==
    IF ~ can_jielong(games[g].current_chengyu, text).ok
    THEN /\ ev' = Event(op, k, u, text, <<>>, "ChainMismatch", why, g)
         /\ tasks' = [tasks EXCEPT ![i] = IdleTask]
         /\ UNCHANGED games
    ELSE IF InList(text, games[g].history)
    THEN /\ ev' = Event(op, k, u, text, <<>>, "Duplicate", why, g)
         /\ tasks' = [tasks EXCEPT ![i] = IdleTask]
         /\ UNCHANGED games
    ELSE /\ CanAppend
         /\ UserAppend(g, u, text)
         /\ tasks' = [tasks EXCEPT ![i] =
               [pc |-> "submit_sleep", op |-> "submit", key |-> k, user |-> u,
                text |-> text, game |-> g]]
         /\ ev' = Event(op, k, u, text, <<>>, "Accepted", why, g)

\* handle_chengyu_input up to its first suspension.
HandleInput(k, u, raw, using, all, n) ==
    LET message_text == Strip(raw) IN
    IF ~ HasSession(k)
    THEN /\ ev' = Event("submit", k, "none", <<>>, <<>>, "Ignored", "nogame", 0)
         /\ UNCHANGED <<active_sessions, games, user_scores, game_history, tasks>>
    ELSE IF message_text # <<>> /\ message_text[1] = "/"
    THEN /\ ev' = Event("submit", k, "none", message_text, <<>>, "Ignored", "command",
                        active_sessions[k])
         /\ UNCHANGED <<active_sessions, games, user_scores, game_history, tasks>>
    ELSE IF ~ is_potential_chengyu(message_text)
    THEN /\ ev' = Event("submit", k, "none", message_text, <<>>, "Ignored", "filtered",
                        active_sessions[k])
         /\ UNCHANGED <<active_sessions, games, user_scores, game_history, tasks>>
    ELSE IF FormatCheck(message_text) # "pass"
    THEN /\ ev' = Event("submit", k, u, message_text, <<>>, "Invalid",
                        FormatCheck(message_text), active_sessions[k])
         /\ UNCHANGED <<active_sessions, games, user_scores, game_history, tasks>>
    ELSE /\ \E i \in FreeSlots(n) :
            /\ \A j \in FreeSlots(n) : i <= j
            /\ IF ~ GetProvider(using, all)
               THEN ApplyMove(i, "submit", k, u, message_text, active_sessions[k], "format")
               ELSE /\ tasks' = [tasks EXCEPT ![i] =
                         [pc |-> "submit_validate", op |-> "submit", key |-> k,
                          user |-> u, text |-> message_text,
                          game |-> active_sessions[k]]]
                    /\ ev' = Event("submit", k, u, message_text, <<>>, "Suspended",
                                   "judge", active_sessions[k])
                    /\ UNCHANGED games
         /\ UNCHANGED <<active_sessions, user_scores, game_history>>

\* handle_chengyu_input resumed with the judge's answer on the candidate.
SubmitValidated(i, reply) ==
    /\ tasks[i].pc = "submit_validate"
    /\ IF ~ JudgeVerdict(reply).ok
       THEN /\ ev' = Event("submit_resumed", tasks[i].key, tasks[i].user, tasks[i].text, <<>>,
                           "Invalid", JudgeVerdict(reply).reason, tasks[i].game)
            /\ tasks' = [tasks EXCEPT ![i] = IdleTask]
            /\ UNCHANGED games
       ELSE ApplyMove(i, "submit_resumed", tasks[i].key, tasks[i].user, tasks[i].text,
                      tasks[i].game, JudgeVerdict(reply).reason)
    /\ UNCHANGED <<active_sessions, user_scores, game_history>>

\* handle_chengyu_input resumed after asyncio.sleep(1): ai_jielong up to the
\* oracle call.
AiInvoke(i, using, all) ==
    /\ tasks[i].pc = "submit_sleep"
    /\ IF ~ GetProvider(using, all)
       THEN /\ tasks' = [tasks EXCEPT ![i] = IdleTask]
            /\ ev' = Event("opponent", tasks[i].key, tasks[i].user, tasks[i].text,
                           <<>>, "AiFailed", "noprovider", tasks[i].game)
       ELSE /\ tasks' = [tasks EXCEPT ![i].pc = "submit_ai"]
            /\ ev' = Event("opponent", tasks[i].key, tasks[i].user, tasks[i].text,
                           <<>>, "Suspended", "oracle", tasks[i].game)
    /\ UNCHANGED <<active_sessions, games, user_scores, game_history>>

\* ai_jielong that takes any four-character answer.
ai_jielong_AnyFirst(last_chengyu, reply) ==
    IF reply.kind = "raise" THEN [ok |-> FALSE, chengyu |-> <<>>, reason |-> "raised"]
    ELSE IF reply.kind = "none" THEN [ok |-> FALSE, chengyu |-> <<>>, reason |-> "noreply"]
    ELSE IF Len(Clean(Strip(reply.text))) = IdiomLen
         THEN [ok |-> TRUE, chengyu |-> Clean(Strip(reply.text)), reason |-> "ok"]
         ELSE [ok |-> FALSE, chengyu |-> <<>>, reason |-> "format"]

\* ai_jielong after the oracle answered: (ai_success, ai_chengyu, ai_reason).
ai_jielong(last_chengyu, reply) ==
    IF reply.kind = "raise" THEN [ok |-> FALSE, chengyu |-> <<>>, reason |-> "raised"]
    ELSE IF reply.kind = "none" THEN [ok |-> FALSE, chengyu |-> <<>>, reason |-> "noreply"]
    ELSE LET ai_chengyu == Clean(Strip(reply.text)) IN
         IF Len(ai_chengyu) = IdiomLen /\ ai_chengyu[1] = last_chengyu[Len(last_chengyu)]
         THEN [ok |-> TRUE, chengyu |-> ai_chengyu, reason |-> "ok"]
         ELSE [ok |-> FALSE, chengyu |-> <<>>, reason |-> "format"]

\* The opponent's move appended without becoming the current idiom.
AiAppend_KeepsCurrent(g, ai_chengyu) ==
    games' = [games EXCEPT
        ![g].history = Append(@, ai_chengyu),
        ![g].last_player = "AI"]

\* The opponent's accepted move written into session object g.
AiAppend(g, ai_chengyu) ==
    games' = [games EXCEPT
        ![g].current_chengyu = ai_chengyu,
        ![g].history = Append(@, ai_chengyu),
        ![g].last_player = "AI"]

\* A handler that goes back to the opponent call when the opponent failed.
AfterOracle_Retry(t, ai) == IF ai.ok THEN IdleTask ELSE [t EXCEPT !.pc = "submit_sleep"]

\* What is left of the handler t after ai_jielong returned ai: it yields one
\* reply and ends, whether the opponent moved or failed.
AfterOracle(t, ai) == IdleTask

\* handle_chengyu_input resumed with the oracle's answer: the rest of the turn.
AiReplied(i, reply) ==
    LET g == tasks[i].game
        ai == ai_jielong(tasks[i].text, reply)
    IN  /\ tasks[i].pc = "submit_ai"
        /\ tasks' = [tasks EXCEPT ![i] = AfterOracle(tasks[i], ai)]
        /\ IF ai.ok
           THEN IF ~ InList(ai.chengyu, games[g].history)
                THEN /\ CanAppend
                     /\ AiAppend(g, ai.chengyu)
                     /\ ev' = Event("opponent", tasks[i].key, tasks[i].user,
                                    tasks[i].text, ai.chengyu, "AiMoved", "ok", g)
                ELSE /\ ev' = Event("opponent", tasks[i].key, tasks[i].user,
                                    tasks[i].text, ai.chengyu, "AiDuplicate", "none", g)
                     /\ UNCHANGED games
           ELSE /\ ev' = Event("opponent", tasks[i].key, tasks[i].user,
                               tasks[i].text, <<>>, "AiFailed", ai.reason, g)
                /\ UNCHANGED games
        /\ UNCHANGED <<active_sessions, user_scores, game_history>>

\* ---------------------------------------------------------- specification

\* One step of the plugin: a handler starts, or a suspended one resumes.  The
\* messages come from the chats `keys` and the users `users`, say one of
\* `msgs` or start with one of `seeds`; at most n handlers are suspended at a
\* time; the provider lookups end as one of `providers` and the judge and
\* the oracle answer with one of `judge` and `oracle`.
NextOf(keys, users, msgs, seeds, n, providers, judge, oracle) ==
    \/ \E k \in keys, seed \in seeds, p \in providers :
          StartGame(k, seed, p[1], p[2], n)
    \/ \E i \in Slots, reply \in judge : StartValidated(i, reply)
    \/ \E i \in Slots, p \in providers : StartGenerate(i, p[1], p[2])
    \/ \E i \in Slots, reply \in oracle : StartGenerated(i, reply)
    \/ \E k \in keys, io \in SaveOutcomes : StopGame(k, io)
    \/ \E k \in keys, u \in users, raw \in msgs, p \in providers :
          HandleInput(k, u, raw, p[1], p[2], n)
    \/ \E i \in Slots, reply \in judge : SubmitValidated(i, reply)
    \/ \E i \in Slots, p \in providers : AiInvoke(i, p[1], p[2])
    \/ \E i \in Slots, reply \in oracle : AiReplied(i, reply)

\* The steps of one chat, with every provider outcome and every answer.
NextFor(users, msgs, seeds, n) ==
    NextOf(Keys, users, msgs, seeds, n, ProviderCases, JudgeReplies, OracleReplies)

\* Every message of the model, one suspended handler at a time: the handlers
\* that do not suspend (stop, a rejected or provider-less start, an ignored
\* message) still run while it is suspended.
Next == NextFor(Users, MessageTexts, SeedTexts, MaxTasks)

Spec == Init /\ [][Next]_vars

\* The messages of the races: one user, idioms only.
RaceUsers == {"u1"}
RaceTexts == { <<"h1", "h1", "h2", "h2">>, <<"h2", "h2", "h1", "h1">>,
               <<"h1", "h2">> }
RaceSeeds == { <<"h1", "h1", "h1", "h1">>, <<>> }

\* Several handlers suspended at once.
NextRace == NextFor(RaceUsers, RaceTexts, RaceSeeds, RaceTasks)

SpecRace == Init /\ [][NextRace]_vars

\* Two chats.
TwoKeys == {"k1", "k2"}
TwoTexts == { <<"h1", "h1", "h2", "h2">>, <<"h1", "h2">> }

\* Two chats at once, with several handlers suspended.
NextTwo ==
    NextOf(TwoKeys, RaceUsers, TwoTexts, RaceSeeds, RaceTasks,
           ProviderCases, JudgeReplies, OracleReplies)

SpecTwo == Init /\ [][NextTwo]_vars

\* ------------------------------------------- a run after earlier runs

\* The game_history list load_data reads back for a chat that has finished
\* len games in earlier runs: its records hold plain lists (no session
\* object, id 0) and the start times -len .. -1.
LoadedHistory(len) ==
    [j \in 1..len |-> [history |-> 0, start_time |-> j - len - 1,
                       total_rounds |-> 0, participants |-> 0]]

\* The recent_games of a user load_data reads back after len earlier games:
\* the scores 11, 12, ...
LoadedScores(len) == [j \in 1..len |-> 10 + j]

\* <<records, scores>> found in the data files: each store empty, one short
\* of full, or full.
Loads == {0, HistoryKeep - 1, HistoryKeep} \X {0, RecentKeep - 1, RecentKeep}

\* __init__ with the data files of earlier runs.
InitLoaded ==
    /\ active_sessions = EmptyMap
    /\ games = <<>>
    /\ \E load \in Loads :
          /\ game_history = IF load[1] = 0 THEN EmptyMap
                            ELSE Put(EmptyMap, "k1", LoadedHistory(load[1]))
          /\ user_scores = IF load[2] = 0 THEN EmptyMap
                           ELSE Put(EmptyMap, "k1", Put(EmptyMap, "u1", LoadedScores(load[2])))
    /\ tasks = [i \in Slots |-> IdleTask]
    /\ ev = Event("init", "none", "none", <<>>, <<>>, "none", "none", 0)

NextLoaded == NextFor(RaceUsers, RaceTexts, RaceSeeds, MaxTasks)

SpecLoaded == InitLoaded /\ [][NextLoaded]_vars

\* ------------------------------------------------- the functions, called

\* is_valid_chengyu as a whole: format checks, provider lookup, judge.
is_valid_chengyu(text, using, all, reply) ==
    IF FormatCheck(text) # "pass" THEN [ok |-> FALSE, reason |-> FormatCheck(text)]
    ELSE IF ~ GetProvider(using, all) THEN [ok |-> TRUE, reason |-> "format"]
    ELSE JudgeVerdict(reply)

\* generate_random_chengyu as a whole.
generate_random_chengyu(using, all, reply) ==
    IF ~ GetProvider(using, all) THEN DefaultChengyu ELSE Generated(reply)

\* ai_jielong as a whole: provider lookup, then the oracle's answer.
AiJielong(last_chengyu, using, all, reply) ==
    IF ~ GetProvider(using, all)
    THEN [ok |-> FALSE, chengyu |-> <<>>, reason |-> "noprovider"]
    ELSE ai_jielong(last_chengyu, reply)

\* The strings the functions are called with: the stripped messages.
CallTexts == { Strip(m) : m \in MessageTexts }

\* One call of is_valid_chengyu; reply is what the judge would answer.
CallIsValid(text, using, all, reply) ==
    /\ ev' = [op |-> "is_valid_chengyu", text |-> text,
              provider |-> GetProvider(using, all), reply |-> reply,
              result |-> is_valid_chengyu(text, using, all, reply)]
    /\ UNCHANGED <<active_sessions, games, user_scores, game_history, tasks>>

\* One call of can_jielong.
CallCanJielong(last_chengyu, new_chengyu) ==
    /\ ev' = [op |-> "can_jielong", last |-> last_chengyu, new |-> new_chengyu,
              result |-> can_jielong(last_chengyu, new_chengyu)]
    /\ UNCHANGED <<active_sessions, games, user_scores, game_history, tasks>>

\* One call of ai_jielong; reply is what the oracle would answer.
CallAiJielong(last_chengyu, using, all, reply) ==
    /\ ev' = [op |-> "ai_jielong", last |-> last_chengyu,
              provider |-> GetProvider(using, all), reply |-> reply,
              result |-> AiJielong(last_chengyu, using, all, reply)]
    /\ UNCHANGED <<active_sessions, games, user_scores, game_history, tasks>>

\* One call of generate_random_chengyu.
CallGenerate(using, all, reply) ==
    /\ ev' = [op |-> "generate_random_chengyu",
              provider |-> GetProvider(using, all), reply |-> reply,
              result |-> generate_random_chengyu(using, all, reply)]
    /\ UNCHANGED <<active_sessions, games, user_scores, game_history, tasks>>

NextCalls ==
    \/ \E text \in CallTexts, p \in ProviderCases, reply \in JudgeReplies :
          CallIsValid(text, p[1], p[2], reply)
    \/ \E a, b \in CallTexts \cup {<<>>} : CallCanJielong(a, b)
    \/ \E last \in CallTexts, p \in ProviderCases, reply \in OracleReplies :
          CallAiJielong(last, p[1], p[2], reply)
    \/ \E p \in ProviderCases, reply \in OracleReplies : CallGenerate(p[1], p[2], reply)

\* The plugin's functions called one at a time, each with every input.
SpecCalls == Init /\ [][NextCalls]_vars

\* ------------------------------------------------------------------ claims

\* The session objects of the run.
Objects == 1..Len(games)

\* The text t is an entry of the list h.
Member(t, h) == \E n \in 1..Len(h) : h[n] = t

\* No entry of h appears twice.
NoRepeat(h) == \A m, n \in 1..Len(h) : m # n => h[m] # h[n]

\* The first character of b is the last character of a.
Chains(a, b) == a # <<>> /\ b # <<>> /\ b[1] = a[Len(a)]

\* The suspended handler t is between its accepted user move and the end of
\* its opponent's reply.
InFlight(t) == t.pc \in {"submit_sleep", "submit_ai"}

\* The in-memory stores a rejected request must leave alone.
Stores == <<active_sessions, games, user_scores, game_history>>

\* C1: of two concurrent starts on one key only one creates a session; a
\* start never replaces the session its key is registered with.
C1_NoSecondSession ==
    [][\A k \in Keys :
          (k \in DOMAIN active_sessions /\ k \in DOMAIN active_sessions')
              => active_sessions'[k] = active_sessions[k]]_vars

\* C2: while a turn is in flight (its user move accepted, its opponent's
\* reply not yet applied), no other handler changes that session or its
\* registration.
C2_TurnExclusive ==
    [][\A i \in Slots :
          (InFlight(tasks[i]) /\ tasks'[i] = tasks[i])
              => /\ games'[tasks[i].game] = games[tasks[i].game]
                 /\ (tasks[i].key \in DOMAIN active_sessions
                        <=> tasks[i].key \in DOMAIN active_sessions')]_vars

\* C3: in every registered session each entry of history starts with the
\* last character of the entry before it.
C3_ChainValid ==
    \A k \in DOMAIN active_sessions :
        LET h == games[active_sessions[k]].history
        IN  \A n \in 1..(Len(h) - 1) : Chains(h[n], h[n + 1])

\* C4 as stated: a move whose candidate is already in history is rejected
\* as a duplicate.
C4_RepeatIsDuplicate ==
    [][(/\ ev'.op \in {"submit", "submit_resumed"}
        /\ ev'.out # "Suspended"
        /\ ev'.game \in Objects
        /\ Member(ev'.text, games[ev'.game].history))
           => ev'.out = "Duplicate"]_vars

\* C4 as amended: no history ever holds an entry twice, and a move whose
\* candidate is already in history is never accepted: it is dropped or
\* rejected (as a duplicate when it passes validation and chains) and the
\* session objects stay as they were.
C4_NoRepeat ==
    [][/\ \A g \in 1..Len(games') : NoRepeat(games'[g].history)
       /\ (/\ ev'.op \in {"submit", "submit_resumed"}
           /\ ev'.game \in Objects
           /\ Member(ev'.text, games[ev'.game].history))
              => /\ ev'.out \in {"Suspended", "Ignored", "Invalid",
                                 "ChainMismatch", "Duplicate"}
                 /\ games' = games
                 /\ (ev'.out = "Duplicate"
                        <=> /\ ev'.out \notin {"Suspended", "Ignored", "Invalid"}
                            /\ Chains(games[ev'.game].current_chengyu, ev'.text))]_vars

\* A repeated candidate was rejected as a duplicate.
C4_Witness ==
    /\ ev.op \in {"submit", "submit_resumed"}
    /\ ev.out = "Duplicate"
    /\ Member(ev.text, games[ev.game].history)
    /\ Len(games[ev.game].history) >= 3

\* C5: the current idiom of every session object is the last entry of its
\* history.
C5_CurrentIsLast ==
    \A g \in Objects :
        games[g].current_chengyu = games[g].history[Len(games[g].history)]

\* The opponent has answered a user's move in a session.
C5_Witness ==
    \E g \in Objects :
        /\ Len(games[g].history) >= 3
        /\ games[g].last_player = "AI"
        /\ ev.op = "opponent" /\ ev.out = "AiMoved" /\ ev.game = g

\* The record of session object g is in game_history[k].
Recorded(k, g) ==
    /\ k \in DOMAIN game_history
    /\ \E n \in 1..Len(game_history[k]) :
          /\ game_history[k][n].history = g
          /\ game_history[k][n].total_rounds = Len(games[g].history) - 1

\* C6: when the opponent cannot continue, the turn itself finalizes the
\* game: the session is gone from the registry and its record is written.
C6_FailureFinalizes ==
    (ev.op = "opponent" /\ ev.out = "AiFailed")
        => (ev.key \notin DOMAIN active_sessions /\ Recorded(ev.key, ev.game))

\* C7: when the opponent's move is already in history, it is not appended
\* and the turn itself finalizes the game.
C7_RepeatFinalizes ==
    (ev.op = "opponent" /\ ev.out = "AiDuplicate")
        => (ev.key \notin DOMAIN active_sessions /\ Recorded(ev.key, ev.game))

\* The ledger's scores of user u in session k.
Recent(scores, k, u) ==
    IF k \in DOMAIN scores /\ u \in DOMAIN scores[k] THEN scores[k][u] ELSE <<>>

\* The records of session k.
Records(history, k) == IF k \in DOMAIN history THEN history[k] ELSE <<>>

\* C8: a stop of a registered session unregisters it, appends one record
\* with roundCount = len(history) - 1 and participantCount = the number of
\* scorers, and appends one ledger entry per scorer, none for anyone else.
C8_StopFinalizes ==
    [][(ev'.op = "stop" /\ ev'.out = "Stopped")
          => LET k == ev'.key
                 g == ev'.game
                 pending == games[g].user_scores
                 old == Records(game_history, k)
                 new == Records(game_history', k)
             IN  /\ k \in DOMAIN active_sessions /\ active_sessions[k] = g
                 /\ k \notin DOMAIN active_sessions'
                 /\ new # <<>>
                 /\ new[Len(new)].total_rounds = Len(games[g].history) - 1
                 /\ new[Len(new)].participants = Cardinality(DOMAIN pending)
                 /\ new[Len(new)].history = g
                 /\ SubSeq(new, 1, Len(new) - 1)
                       = (IF Len(old) < HistoryKeep THEN old ELSE Tail(old))
                 /\ \A u \in Users :
                       LET was == Recent(user_scores, k, u)
                           is == Recent(user_scores', k, u)
                       IN  IF u \in DOMAIN pending
                           THEN /\ is # <<>>
                                /\ is[Len(is)] = pending[u]
                                /\ SubSeq(is, 1, Len(is) - 1)
                                      = (IF Len(was) < RecentKeep THEN was ELSE Tail(was))
                           ELSE is = was]_vars

\* A session with two scorers was stopped.
C8_Witness ==
    /\ ev.op = "stop" /\ ev.out = "Stopped"
    /\ Cardinality(DOMAIN games[ev.game].user_scores) = 2
    /\ \A u \in Users : Recent(user_scores, ev.key, u) # <<>>

\* C9 as stated: a move sent while its key has no session is answered with
\* a NoActiveGame rejection.
C9_MoveWithoutGameRejected ==
    (ev.op = "submit" /\ ev.reason = "nogame") => ev.out = "NoActiveGame"

\* C9 as amended: a start sent while its key has a session is answered
\* AlreadyActive, a stop sent while its key has none is answered
\* NoActiveGame, a message sent while its key has none is dropped without a
\* reply; all three leave the stores and the suspended handlers as they were.
C9_StateErrors ==
    [][/\ (ev'.op = "start" /\ ev'.key \in DOMAIN active_sessions)
            => (ev'.out = "AlreadyActive" /\ UNCHANGED <<Stores, tasks>>)
       /\ (ev'.op = "stop" /\ ev'.key \notin DOMAIN active_sessions)
            => (ev'.out = "NoActiveGame" /\ UNCHANGED <<Stores, tasks>>)
       /\ (ev'.op = "submit" /\ ev'.key \notin DOMAIN active_sessions)
            => (ev'.out = "Ignored" /\ UNCHANGED <<Stores, tasks>>)
       /\ (ev'.out \in {"AlreadyActive", "NoActiveGame"})
            => UNCHANGED <<Stores, tasks>>]_vars

\* A start was refused on a session that has moves and scores.
C9_Witness ==
    /\ ev.op = "start" /\ ev.out = "AlreadyActive"
    /\ ev.key \in DOMAIN active_sessions
    /\ games[active_sessions[ev.key]].user_scores # EmptyMap

\* C10 as stated: every kind of failure of a move is surfaced as a
\* rejection; in particular a candidate that fails the format checks of
\* validation is answered Invalid.
C10_FormatFailureRejected ==
    (/\ ev.op \in {"submit", "submit_resumed"}
     /\ ev.game # 0
     /\ Len(SelectSeq(ev.text, IsHan)) # IdiomLen)
        => ev.out = "Invalid"

\* The handlers in flight.
Turns(ts) == { i \in Slots : InFlight(ts[i]) }

\* C10 as amended: a message that fails the pre-filter is dropped without a
\* reply; one that passes it is validated, then chain-matched against the
\* current idiom, then checked for a duplicate, and the first failure decides
\* the rejection; a dropped or rejected message leaves the stores as they
\* were and starts no opponent turn.
C10_Pipeline ==
    [][(ev'.op \in {"submit", "submit_resumed"} /\ ev'.game \in Objects
            /\ ev'.out # "Suspended")
          => LET t == ev'.text
                 game == games[ev'.game]
                 filtered == \/ Len(SelectSeq(t, IsHan)) # IdiomLen
                             \/ t[1] = "/"
                             \/ \E n \in 1..Len(t) :
                                   t[n] \in AlnumChars \cup HanBannedSingle
                             \/ \E n \in 1..(Len(SelectSeq(t, IsHan)) - 1) :
                                   /\ SelectSeq(t, IsHan)[n] \in {"shen", "zen"}
                                   /\ SelectSeq(t, IsHan)[n + 1] = "me"
                 chains == Chains(game.current_chengyu, t)
                 repeated == Member(t, game.history)
             IN  /\ ev'.out \in {"Ignored", "Invalid", "ChainMismatch",
                                 "Duplicate", "Accepted"}
                 /\ ev'.out = "Ignored" <=> filtered
                 /\ ev'.out = "Invalid" <=> (~ filtered /\ ev'.reason = "notidiom")
                 /\ ev'.out = "ChainMismatch"
                       <=> (~ filtered /\ ev'.reason # "notidiom" /\ ~ chains)
                 /\ ev'.out = "Duplicate"
                       <=> (~ filtered /\ ev'.reason # "notidiom" /\ chains /\ repeated)
                 /\ ev'.out # "Accepted"
                       => (UNCHANGED Stores /\ Turns(tasks') \subseteq Turns(tasks))]_vars

\* Validation rejected a candidate that would also have failed the chain
\* check and the duplicate check.
C10_Witness ==
    /\ ev.op = "submit_resumed" /\ ev.out = "Invalid"
    /\ ev.game \in Objects
    /\ ~ Chains(games[ev.game].current_chengyu, ev.text)
    /\ Member(ev.text, games[ev.game].history)

\* The pending score of user u in the session object game.
Pending(game, u) == IF u \in DOMAIN game.user_scores THEN game.user_scores[u] ELSE 0

\* C11: an accepted move of user a appends exactly the candidate to the
\* history of its session, makes it the current idiom, adds exactly one point
\* to a's pending score (1 if a had none), leaves every other user's pending
\* score and every other session object as they were and sets lastMover to
\* USER; the opponent has not been invoked yet: the turn is suspended before
\* the opponent call.
C11_AcceptedMove ==
    [][(ev'.out = "Accepted")
          => LET g == ev'.game
                 a == ev'.user
             IN  /\ ev'.op \in {"submit", "submit_resumed"}
                 /\ g \in Objects
                 /\ Len(games') = Len(games)
                 /\ \A o \in Objects : o # g => games'[o] = games[o]
                 /\ Len(games'[g].history) = Len(games[g].history) + 1
                 /\ \A n \in 1..Len(games[g].history) :
                        games'[g].history[n] = games[g].history[n]
                 /\ games'[g].history[Len(games'[g].history)] = ev'.text
                 /\ games'[g].current_chengyu = ev'.text
                 /\ games'[g].last_player = "USER"
                 /\ games'[g].start_time = games[g].start_time
                 /\ Pending(games'[g], a) = Pending(games[g], a) + 1
                 /\ DOMAIN games'[g].user_scores = DOMAIN games[g].user_scores \cup {a}
                 /\ \A u \in Users : u # a => Pending(games'[g], u) = Pending(games[g], u)
                 /\ \E i \in Slots :
                        /\ tasks'[i].pc = "submit_sleep"
                        /\ tasks'[i].game = g /\ tasks'[i].user = a
                        /\ tasks'[i].text = ev'.text
                        /\ \A j \in Slots : j # i => tasks'[j] = tasks[j]
                 /\ UNCHANGED <<active_sessions, user_scores, game_history>>]_vars

\* A user's first move was accepted in a session where another user already
\* has a point.
C11_Witness ==
    /\ ev.out = "Accepted"
    /\ ev.game \in Objects
    /\ Pending(games[ev.game], ev.user) = 1
    /\ \E u \in Users : u # ev.user /\ Pending(games[ev.game], u) >= 1
    /\ Len(games[ev.game].history) >= 3

\* The Han characters of the text t, in order.
Permitted(t) == SelectSeq(t, IsHan)

\* The judge's answer says no: it holds the word "no" or the word "not".
DefiniteNo(reply) ==
    /\ reply.kind = "text"
    /\ \E n \in 1..Len(reply.text) : reply.text[n] \in {"fou", "bu"}

\* C12: validation is fail-open: a candidate that passes the format checks
\* (4 permitted characters after stripping) is rejected only on a definite
\* negative answer of the judge, never on an ambiguous or blank answer, a
\* missing answer or a failed call.
C12_FailOpen ==
    (/\ ev.op = "is_valid_chengyu"
     /\ Len(Permitted(ev.text)) = IdiomLen
     /\ ~ ev.result.ok)
        => (ev.provider /\ DefiniteNo(ev.reply))

\* C15: for non-empty A and B, can_jielong(A, B) succeeds exactly when the
\* last character of A is the first character of B, and a mismatch names
\* both characters; with an empty argument the answer is the empty-input
\* rejection.
C15_CanChain ==
    (ev.op = "can_jielong")
        => LET a == ev.last
               b == ev.new
               r == ev.result
           IN  IF a = <<>> \/ b = <<>>
               THEN ~ r.ok /\ r.reason = "empty"
               ELSE /\ r.ok <=> a[Len(a)] = b[1]
                    /\ r.reason = (IF a[Len(a)] = b[1] THEN "ok" ELSE "mismatch")
                    /\ r.last_char = a[Len(a)]
                    /\ r.first_char = b[1]

\* B chains on A although A does not chain on B.
C15_Witness ==
    /\ ev.op = "can_jielong"
    /\ ev.result.ok
    /\ ev.last # <<>> /\ ev.new # <<>>
    /\ ev.new[Len(ev.new)] # ev.last[1]

\* C18: ai_jielong returns a move exactly when a provider exists, the
\* oracle answered with a text, the Han characters of that text are exactly
\* 4 and the first of them is the last character of the idiom answered; the
\* move is those 4 characters.  Every other outcome is a failure without a
\* move.
C18_OpponentMove ==
    (ev.op = "ai_jielong")
        => LET answer == Permitted(ev.reply.text)
               fits == /\ ev.provider
                       /\ ev.reply.kind = "text"
                       /\ Len(answer) = IdiomLen
                       /\ answer[1] = ev.last[Len(ev.last)]
           IN  /\ ev.result.ok <=> fits
               /\ ev.result.ok => ev.result.chengyu = answer
               /\ ~ ev.result.ok => ev.result.chengyu = <<>>

\* The oracle's answer had to be stripped of punctuation to become the move.
C18_Witness ==
    /\ ev.op = "ai_jielong"
    /\ ev.result.ok
    /\ ev.reply.text # ev.result.chengyu
    /\ Len(ev.result.chengyu) = IdiomLen

\* The list new is the list old with x appended, cut from the front to at
\* most keep entries.
Rolled(old, new, x, keep) ==
    /\ new # <<>>
    /\ Len(new) <= keep
    /\ new[Len(new)] = x
    /\ SubSeq(new, 1, Len(new) - 1) = (IF Len(old) < keep THEN old ELSE Tail(old))

\* C13: no user's recentGames ever holds more than 3 entries; finalizing a
\* game the user scored in appends the game's score at the end and drops the
\* oldest entry once there would be 4; no other step changes the list.
C13_RecentThree ==
    [][\A k \in Keys, u \in Users :
          LET was == Recent(user_scores, k, u)
              is == Recent(user_scores', k, u)
          IN  /\ Len(is) <= RecentKeep
              /\ IF /\ ev'.out = "Stopped" /\ ev'.key = k
                    /\ u \in DOMAIN games[ev'.game].user_scores
                 THEN Rolled(was, is, games[ev'.game].user_scores[u], RecentKeep)
                 ELSE is = was]_vars

\* The user's fourth game was recorded: the ledger holds the scores of the
\* second game (12, from an earlier run) and of the two games of this run.
C13_Witness ==
    /\ ev.out = "Stopped"
    /\ Len(Recent(user_scores, "k1", "u1")) = RecentKeep
    /\ Recent(user_scores, "k1", "u1")[1] = 12
    /\ Recent(user_scores, "k1", "u1")[2] < 10
    /\ Recent(user_scores, "k1", "u1")[3] < 10

\* C14: no chat's game history ever holds more than 10 records; finalizing
\* a game of the chat appends the game's record at the end and drops the
\* oldest record once there would be 11; no other step changes the list.
C14_HistoryTen ==
    [][\A k \in Keys :
          LET old == Records(game_history, k)
              new == Records(game_history', k)
          IN  /\ Len(new) <= HistoryKeep
              /\ IF ev'.out = "Stopped" /\ ev'.key = k
                 THEN /\ new # <<>>
                      /\ new[Len(new)].history = ev'.game
                      /\ new[Len(new)].start_time = games[ev'.game].start_time
                      /\ SubSeq(new, 1, Len(new) - 1)
                            = (IF Len(old) < HistoryKeep THEN old ELSE Tail(old))
                 ELSE new = old]_vars

\* Two games were finalized on top of 10 loaded records: the two oldest
\* records are gone and the two new ones are last.
C14_Witness ==
    /\ Len(Records(game_history, "k1")) = HistoryKeep
    /\ Records(game_history, "k1")[1].start_time = 3 - HistoryKeep - 1
    /\ Records(game_history, "k1")[HistoryKeep - 1].history = 1
    /\ Records(game_history, "k1")[HistoryKeep].history = 2

\* The step resumes (or ends) a suspended handler that was at pc.
Resumes(pc) == \E i \in Slots : tasks[i].pc = pc /\ tasks'[i] # tasks[i]

\* C16: a start creates a session only as a new object with history =
\* [seed], current idiom = seed, no pending scores and lastMover = OPPONENT,
\* registered for its key.  A start with a seed creates it only for a seed of
\* 4 permitted characters that validation passed, and a rejected seed
\* changes nothing; a start without a seed is never rejected and creates the
\* session with the oracle's answer if that has exactly 4 permitted
\* characters, and with the fixed default idiom otherwise (no provider, no
\* answer, a malformed answer, an exception).
C16_StartCreates ==
    [][(ev'.op \in {"start", "start_resumed"})
          => LET k == ev'.key
                 t == ev'.text
                 seeded == \/ ev'.op = "start" /\ t # <<>>
                           \/ Resumes("start_validate")
                 new == games'[Len(games')]
             IN  /\ ev'.out \in {"AlreadyActive", "SeedRejected", "Created", "Suspended"}
                 /\ ev'.out = "Created"
                       => /\ Len(games') = Len(games) + 1
                          /\ \A o \in Objects : games'[o] = games[o]
                          /\ DOMAIN active_sessions' = DOMAIN active_sessions \cup {k}
                          /\ active_sessions'[k] = Len(games')
                          /\ new.history = <<t>>
                          /\ new.current_chengyu = t
                          /\ new.user_scores = EmptyMap
                          /\ new.last_player = "AI"
                          /\ UNCHANGED <<user_scores, game_history>>
                          /\ seeded => Len(Permitted(t)) = IdiomLen
                          /\ ~ seeded
                                => t = (IF /\ ev'.reason = "text"
                                           /\ Len(Permitted(ev'.ai)) = IdiomLen
                                        THEN Permitted(ev'.ai)
                                        ELSE <<"h1", "h1", "h2", "h2">>)
                 /\ ev'.out # "Created" => UNCHANGED Stores
                 /\ ev'.out = "SeedRejected" => seeded
                 /\ Resumes("start_generate") => ev'.out = "Created"
                 /\ Resumes("start_yield") => ev'.out \in {"Created", "Suspended"}]_vars

\* A start without a seed fell back to the default idiom after a malformed
\* answer of the oracle, and its session is registered.
C16_Witness ==
    /\ ev.op = "start_resumed" /\ ev.out = "Created"
    /\ ev.reason = "text"
    /\ Len(Permitted(ev.ai)) # IdiomLen
    /\ ev.key \in DOMAIN active_sessions
    /\ active_sessions[ev.key] = ev.game
    /\ games[ev.game].history = << <<"h1", "h1", "h2", "h2">> >>

\* The entry of chat k in the store map, <<>> if it has none.
Of(map, k) == IF k \in DOMAIN map THEN <<map[k]>> ELSE <<>>

\* The session objects chat k can reach: the one it is registered with, the
\* ones its records hold and the ones its suspended handlers captured.
Reach(k) ==
    { o \in Objects :
        \/ k \in DOMAIN active_sessions /\ active_sessions[k] = o
        \/ \E n \in 1..Len(Records(game_history, k)) :
              Records(game_history, k)[n].history = o
        \/ \E i \in Slots : tasks[i].key = k /\ tasks[i].game = o }

\* C17: a step of one chat (a start, a move, an opponent's reply, a stop, at
\* its invocation or when it resumes) leaves every other chat's registration,
\* session objects, ledger entries, records and suspended handlers as they
\* were.
C17_Independent ==
    [][\A k \in TwoKeys :
          k # ev'.key
              => /\ Of(active_sessions', k) = Of(active_sessions, k)
                 /\ Of(user_scores', k) = Of(user_scores, k)
                 /\ Of(game_history', k) = Of(game_history, k)
                 /\ \A o \in Reach(k) : games'[o] = games[o]
                 /\ \A i \in Slots : tasks[i].key = k => tasks'[i] = tasks[i]]_vars

\* A move of one chat was accepted while a turn of the other chat is
\* suspended in its opponent call.
C17_Witness ==
    /\ ev.out = "Accepted"
    /\ \E i \in Slots :
          /\ tasks[i].pc = "submit_ai"
          /\ tasks[i].key # ev.key
          /\ tasks[i].key \in DOMAIN active_sessions
          /\ ev.key \in DOMAIN active_sessions
          /\ active_sessions[ev.key] # active_sessions[tasks[i].key]

\* C19: a stop whose save fails still reports success, unregisters the
\* session and leaves the finalized game's record and scores in the
\* in-memory stores; the next request of that chat is answered as after any
\* stop: a start is not refused as AlreadyActive, a message is dropped for
\* want of a game, a stop is answered NoActiveGame.
C19_SaveFailureSwallowed ==
    [][/\ (ev'.op = "stop" /\ ev'.key \in DOMAIN active_sessions
             /\ ev'.reason = "save_failed")
            => LET k == ev'.key
                   g == active_sessions[k]
                   new == Records(game_history', k)
               IN  /\ ev'.out = "Stopped"
                   /\ ev'.game = g
                   /\ k \notin DOMAIN active_sessions'
                   /\ new # <<>>
                   /\ new[Len(new)].history = g
                   /\ new[Len(new)].total_rounds = Len(games'[g].history) - 1
                   /\ \A u \in DOMAIN games[g].user_scores :
                          /\ Recent(user_scores', k, u) # <<>>
                          /\ Recent(user_scores', k, u)[Len(Recent(user_scores', k, u))]
                                = games[g].user_scores[u]
       /\ (ev.op = "stop" /\ ev.reason = "save_failed" /\ ev'.key = ev.key)
            => /\ ev'.op = "start" => ev'.out \in {"Created", "Suspended", "SeedRejected"}
               /\ ev'.op = "submit" => (ev'.out = "Ignored" /\ ev'.reason = "nogame")
               /\ ev'.op = "stop" => ev'.out = "NoActiveGame"]_vars

\* A game with a scorer was stopped and its save failed.
C19_Witness ==
    /\ ev.op = "stop" /\ ev.out = "Stopped" /\ ev.reason = "save_failed"
    /\ games[ev.game].user_scores # EmptyMap
    /\ ev.key \notin DOMAIN active_sessions
    /\ Records(game_history, ev.key) # <<>>
    /\ \E u \in Users : Recent(user_scores, ev.key, u) # <<>>

\* How far a handler at pc is into its request.
Rank(pc) ==
    CASE pc = "idle" -> 0
      [] pc \in {"start_validate", "start_yield", "submit_validate"} -> 1
      [] pc \in {"start_generate", "submit_sleep"} -> 2
      [] pc = "submit_ai" -> 3

\* The pcs at which a handler waits for the judge, and for the oracle.
AtJudge == {"start_validate", "submit_validate"}
AtOracle == {"start_generate", "submit_ai"}

\* C20: a request never goes back: each step of a handler either ends it or
\* takes it further into the same request, so it waits at most once for the
\* judge and at most once for the oracle (a start: for one of the two); a
\* step issues a call exactly when it takes a handler to such a wait, and
\* the step that receives the answer of the oracle, or the judge's answer on
\* a seed, ends the handler whatever the answer was.
C20_SingleShot ==
    [][\A i \in Slots :
          tasks'[i] # tasks[i]
              => LET a == tasks[i].pc
                     b == tasks'[i].pc
                 IN  /\ b = "idle" \/ Rank(b) > Rank(a)
                     /\ (a # "idle" /\ b # "idle")
                           => /\ tasks'[i].op = tasks[i].op
                              /\ tasks'[i].key = tasks[i].key
                              /\ tasks'[i].user = tasks[i].user
                     /\ a \in AtOracle \cup {"start_validate"} => b = "idle"
                     /\ a = "submit_validate" => b \in {"idle", "submit_sleep"}
                     /\ b \in AtJudge
                           <=> (a = "idle" /\ ev'.out = "Suspended" /\ ev'.reason = "judge")
                     /\ b \in AtOracle
                           <=> (a \in {"start_yield", "submit_sleep"}
                                  /\ ev'.out = "Suspended" /\ ev'.reason = "oracle")
                     /\ (ev'.out = "Suspended" /\ ev'.reason \in {"judge", "oracle"})
                           => \A j \in Slots : j # i => tasks'[j] = tasks[j]]_vars

\* The opponent call of a turn failed and the turn ended: no handler is
\* left to call again.
C20_Witness ==
    /\ ev.op = "opponent" /\ ev.out = "AiFailed"
    /\ ev.reason \in {"raised", "noreply"}
    /\ \A i \in Slots : tasks[i].pc = "idle"

\* The text t is an idiom: exactly 4 characters, all of them Han.
IsIdiom(t) == Len(t) = IdiomLen /\ \A n \in 1..Len(t) : t[n] \in HanChars

\* C21: every entry of every session's history, and so every current
\* idiom, is an idiom of exactly 4 permitted characters: a seed or a
\* candidate that carries other characters is stored in its stripped form.
C21_EntriesAreIdioms ==
    \A g \in Objects :
        /\ IsIdiom(games[g].current_chengyu)
        /\ \A n \in 1..Len(games[g].history) : IsIdiom(games[g].history[n])

\* The session objects chat k is registered with.
Live(k) == IF k \in DOMAIN active_sessions THEN {active_sessions[k]} ELSE {}

\* C22: a user's move and an opponent's move are written only into the
\* session their chat is registered with at that moment: a turn whose
\* session was stopped (or stopped and started again) while it was suspended
\* appends nothing and gives no point to the finalized session object.
C22_OnlyLiveSession ==
    [][\A g \in Objects :
          games'[g] # games[g]
              => \E k \in Keys : ev'.key = k /\ g \in Live(k)]_vars

\* C23: every stored record keeps roundCount = len(fullChain) - 1: nothing
\* extends the chain of a record once it is written.
C23_RecordImmutable ==
    \A k \in DOMAIN game_history :
        \A n \in 1..Len(game_history[k]) :
            LET record == game_history[k][n]
            IN  record.history \in Objects
                    => record.total_rounds = Len(games[record.history].history) - 1

\* The sum of the pending scores of the session object game.
RECURSIVE SumOver(_, _)
SumOver(game, users) ==
    IF users = {} THEN 0
    ELSE LET u == CHOOSE x \in users : TRUE
         IN  Pending(game, u) + SumOver(game, users \ {u})

Points(game) == SumOver(game, Users)

\* The entries of the session object game after its seed.
Moves(game) == Len(game.history) - 1

\* C24: a session starts with its seed alone and no points; an accepted
\* user move adds one entry and one point, an opponent's move adds one entry
\* and no point, and no other step changes either count.  So the points are
\* the user entries, the remaining entries after the seed are the
\* opponent's, and these never outnumber the points.
C24_ScoresCountMoves ==
    [][\A g \in 1..Len(games') :
          /\ Points(games'[g]) <= Moves(games'[g])
          /\ Moves(games'[g]) <= 2 * Points(games'[g])
          /\ IF g \notin Objects
             THEN Moves(games'[g]) = 0 /\ Points(games'[g]) = 0
             ELSE IF ev'.out = "Accepted" /\ ev'.game = g
             THEN /\ Moves(games'[g]) = Moves(games[g]) + 1
                  /\ Points(games'[g]) = Points(games[g]) + 1
                  /\ games'[g].last_player = "USER"
             ELSE IF ev'.out = "AiMoved" /\ ev'.game = g
             THEN /\ Moves(games'[g]) = Moves(games[g]) + 1
                  /\ Points(games'[g]) = Points(games[g])
                  /\ games'[g].last_player = "AI"
             ELSE /\ Moves(games'[g]) = Moves(games[g])
                  /\ Points(games'[g]) = Points(games[g])]_vars

\* A registered session holds its seed, two user entries by two users and
\* one entry of the opponent.
C24_Witness ==
    \E k \in DOMAIN active_sessions :
        LET game == games[active_sessions[k]]
        IN  /\ Moves(game) = 3
            /\ Points(game) = 2
            /\ \A u \in Users : Pending(game, u) = 1

====
